---- MODULE Spec2Model ----
(***************************************************************************)
(* rez_bisect: the exact-mode bisection (core/runner.py), the check        *)
(* predicate and the request-to-context conversion (core/rez_helper.py),   *)
(* with the command line's run around them.                                *)
(* rez_docbot: GitPublisher.authenticate and quick_publish                 *)
(* (publishers/generic.py).  rez_sphinx: bootstrap (core/bootstrap.py).    *)
(***************************************************************************)
EXTENDS Integers, Sequences, FiniteSets, TLC

\* ---------------------------------------------------------------- bounds
MaxContexts == 6
MaxReturnCode == 2
MaxRequests == 3
MaxVersion == 4
MaxMethods == 2
MaxMinor == 3
MaxSkip == 2

\* ------------------------------------------------------------- contexts
\* A resolved context is a map from package name to resolved version;
\* version 0 stands for "the package is not in the resolve".
Packages == {"foo", "bar", "changing_dependencies"}

Resolved(context, p) == context[p] # 0

\* The context that resolves the single package foo at `version`.
make_single_context(version) == [p \in Packages |-> IF p = "foo" THEN version ELSE 0]

\* The installed versions of foo form the chain 1 < 2 < ... ; the contexts
\* from version `before` to version `after`, in ascending order.
ContextChain(before, after) == [i \in 1..(after - before + 1) |-> make_single_context(before + i - 1)]

CategoryNames == {"added_packages", "removed_packages", "newer_packages", "older_packages"}

\* A package whose version did not move counted as newer.
get_resolve_diff_inclusive(before, after) ==
    LET added   == {<<p, after[p]>> : p \in {q \in Packages : ~Resolved(before, q) /\ Resolved(after, q)}}
        removed == {<<p, before[p]>> : p \in {q \in Packages : Resolved(before, q) /\ ~Resolved(after, q)}}
        newer   == {<<p, after[p]>> : p \in {q \in Packages : Resolved(before, q) /\ after[q] >= before[q]}}
        older   == {<<p, after[p]>> : p \in {q \in Packages : Resolved(after, q) /\ after[q] < before[q]}}
    IN  [added_packages |-> added, removed_packages |-> removed,
         newer_packages |-> newer, older_packages |-> older]

\* ResolvedContext.get_resolve_diff, called as before.get_resolve_diff(after):
\* every category holds <<name, version>> entries.
get_resolve_diff(before, after) ==
    LET added   == {<<p, after[p]>> : p \in {q \in Packages : ~Resolved(before, q) /\ Resolved(after, q)}}
        removed == {<<p, before[p]>> : p \in {q \in Packages : Resolved(before, q) /\ ~Resolved(after, q)}}
        newer   == {<<p, after[p]>> : p \in {q \in Packages : Resolved(before, q) /\ after[q] > before[q]}}
        older   == {<<p, after[p]>> : p \in {q \in Packages : Resolved(after, q) /\ after[q] < before[q]}}
    IN  [added_packages |-> added, removed_packages |-> removed,
         newer_packages |-> newer, older_packages |-> older]

\* The keys of a diff: only the categories that hold something are present.
Categories(diff) == {c \in CategoryNames : diff[c] # {}}

EmptyDiff == [c \in CategoryNames |-> {}]

\* ------------------------------------------------------------- requests
\* The raw requests and context files a caller can name.
ValidRequests == {"foo-1", "foo-2"}

UnresolvableRequests == {"foo-9", "bar-9"}

AbsoluteFiles == {"/ctx/good.rxt", "/ctx/failed.rxt", "/ctx/missing.rxt", "/ctx/gone.rxt"}

RelativeFiles == {"rel/good.rxt", "rel/missing.rxt"}

RequestNames == ValidRequests \cup UnresolvableRequests \cup AbsoluteFiles \cup RelativeFiles

\* path_helper.normalize(request, root): a relative path is taken from root.
normalize(request) ==
    CASE request = "rel/good.rxt" -> "/root/rel/good.rxt"
      [] request = "rel/missing.rxt" -> "/root/rel/missing.rxt"
      [] OTHER -> request

\* os.path.isabs
isabs(request) == request \in AbsoluteFiles \cup {"/root/rel/good.rxt", "/root/rel/missing.rxt"}

\* os.path.isfile: the files that exist on-disk.
isfile(path) == path \in {"/ctx/good.rxt", "/ctx/failed.rxt", "/root/rel/good.rxt"}

_is_relative_context(text) == text \in AbsoluteFiles \cup RelativeFiles

\* context.success of the context a request resolves to, or a file loads as.
success(request) == request \in ValidRequests \cup {"/ctx/good.rxt", "/root/rel/good.rxt"}

\* The context a successful request stands for.
context_of(request) ==
    CASE request = "foo-1" -> make_single_context(1)
      [] request = "foo-2" -> make_single_context(2)
      [] request = "/ctx/good.rxt" -> make_single_context(3)
      [] OTHER -> make_single_context(4)

\* to_contexts, lines 51-72: the loop over the requests from position i on.
\* ResolvedContext.load of a path that is no file raises (an I/O error that
\* to_contexts does not catch) and ends the call there.
RECURSIVE to_contexts_loop(_, _, _, _, _)
to_contexts_loop(reqs, i, failed, missing, ctxs) ==
    IF i > Len(reqs)
    THEN [raised |-> "none", failed |-> failed, missing |-> missing, contexts |-> ctxs]
    ELSE LET request == reqs[i]
             missing_now == IF isabs(request) /\ ~isfile(request) THEN missing \cup {request} ELSE missing
             loaded == IF _is_relative_context(request) THEN normalize(request) ELSE request
         IN  IF missing_now # {}
             THEN to_contexts_loop(reqs, i + 1, failed, missing_now, ctxs)
             ELSE IF _is_relative_context(request) /\ ~isfile(loaded)
             THEN [raised |-> "IOError", failed |-> failed, missing |-> missing_now, contexts |-> ctxs]
             ELSE IF ~success(loaded)
             THEN to_contexts_loop(reqs, i + 1, failed \cup {loaded}, missing_now, ctxs)
             ELSE to_contexts_loop(reqs, i + 1, failed, missing_now, Append(ctxs, context_of(loaded)))

\* to_contexts, lines 47-84: what the call ends with.
to_contexts(reqs) ==
    LET r == to_contexts_loop(reqs, 1, {}, {}, <<>>)
    IN  IF r.raised # "none" THEN [error |-> r.raised, named |-> {}, contexts |-> <<>>]
        ELSE IF r.missing # {} THEN [error |-> "BadRequest", named |-> r.missing, contexts |-> <<>>]
        ELSE IF r.failed # {} THEN [error |-> "BadRequest", named |-> r.failed, contexts |-> <<>>]
        ELSE [error |-> "none", named |-> {}, contexts |-> r.contexts]

\* All lists of at most n requests.
RequestLists(n) == UNION {[1..k -> RequestNames] : k \in 0..n}

\* ------------------------------------------------------------- variables
VARIABLES
    pc,          \* position of the call: idle, bisect, search, check, diff, narrow, done;
                 \* of quick_publish: clone, copy, add, commit, push, done
    entry,       \* the operation called: to_contexts, bisect, run or partial
    requests,    \* the requests handed to to_contexts
    contexts,    \* the contexts to_contexts returned, or the list handed to bisect
    returncode,  \* exit status of the check executable in contexts[i], i = 0..
    lo, hi,      \* the bracket of bisect_right, -1 before the search
    cache,       \* the verdicts bisect_right knows, by index
    calls,       \* the has_issue invocations so far: <<index, verdict>>
    last_good, first_bad,
    summary,     \* the _BisectSummary returned, if any
    breakdown,   \* partial mode: the diff narrowed to the packages at fault
    named,       \* the items the BadRequest message lists
    error,       \* the exception the call ended with, or "none"
    given,       \* what else the call was given: the failure condition and its
                 \* threshold, the --matches filter, the contexts that failed
                 \* to resolve, whether the check executable can be started
    running,     \* the indices whose check process was started and did not exit
    publisher,   \* rez_docbot: the GitPublisher, its package and its repository
    sphinx       \* rez_sphinx: the conf.py data bootstrap was given and returns

vars == <<pc, entry, requests, contexts, returncode, lo, hi, cache, calls,
          last_good, first_bad, summary, breakdown, named, error, given, running, publisher, sphinx>>

NothingGiven ==
    [condition |-> "none", threshold |-> 0, matches |-> {}, failed |-> {}, launched |-> TRUE]

NoSummary == [last_good |-> -1, first_bad |-> -1, diff |-> EmptyDiff, returned |-> FALSE]

\* Python's 0-based indexing into the 1-based sequence.
At(seq, i) == seq[i + 1]

count == Len(contexts)

\* ------------------------------------------------------ rez_helper.py
\* to_script_runner(path)._run_in_context: the value returned for a process
\* that exited with status rc.
_run_in_context(rc) == rc = 0

\* The failure condition the partial-mode runs are given in place of a script:
\* foo is resolved, bar is resolved, both are, or foo is below a version.
_is_failure_condition(context) ==
    CASE given.condition = "foo" -> Resolved(context, "foo")
      [] given.condition = "bar" -> Resolved(context, "bar")
      [] given.condition = "foo_and_bar" -> Resolved(context, "foo") /\ Resolved(context, "bar")
      [] OTHER -> Resolved(context, "foo") /\ context["foo"] < given.threshold

\* has_issue(contexts[i]).
\* The command run in a failed context as if the resolve had succeeded.
execute_command_unchecked(i) == FALSE

\* context.execute_command refuses a context whose resolve failed: it raises
\* and _run_in_context returns no verdict.
execute_command_raises(i) == i \in given.failed

has_issue(i) ==
    IF entry = "partial"
    THEN _is_failure_condition(At(contexts, i))
    ELSE _run_in_context(returncode[i])

\* ------------------------------------------------------------ runner.py
\* Mutant: the pair is taken one index too high.
reduce_shifted(upper_bound) == <<upper_bound, upper_bound + 1>>

\* The pair is taken from the first context to the upper bound.
reduce_from_first(upper_bound) == <<0, upper_bound>>

\* The pair is taken one index too low.
reduce_shifted_down(upper_bound) == <<upper_bound - 2, upper_bound - 1>>

_reduce_to_two_contexts(upper_bound) == <<upper_bound - 1, upper_bound>>

\* Mutant: the branch for exactly two contexts tests for one context.
bisect_branch_two_as_one(n) ==
    IF n > 2 THEN "reduce"
    ELSE IF n = 1 THEN "two"
    ELSE "NotImplementedError"

\* Mutant: no guard for fewer than two contexts.
bisect_branch_unguarded(n) == IF n > 2 THEN "reduce" ELSE "two"

\* The branch bisect takes for n contexts.
bisect_branch(n) ==
    IF n > 2 THEN "reduce"
    ELSE IF n = 2 THEN "two"
    ELSE "NotImplementedError"

\* Python's list index: negative indices count from the end.
InRange(i, n) == -n <= i /\ i < n

PyIndex(i, n) == IF i < 0 THEN n + i ELSE i

\* Mutant: the diff is taken from the first bad context to the last good one.
bisect_diff_swapped(ctxs, good, bad) ==
    get_resolve_diff(At(ctxs, PyIndex(bad, Len(ctxs))), At(ctxs, PyIndex(good, Len(ctxs))))

\* The last good context compared with itself.
bisect_diff_same_context(ctxs, good, bad) ==
    get_resolve_diff(At(ctxs, PyIndex(good, Len(ctxs))), At(ctxs, PyIndex(good, Len(ctxs))))

\* bisect, line 70.
bisect_diff(ctxs, good, bad) ==
    get_resolve_diff(At(ctxs, PyIndex(good, Len(ctxs))), At(ctxs, PyIndex(bad, Len(ctxs))))

\* ------------------------------------------------- rez_docbot, generic.py
\* A package version 1.minor.patch; minor 0 stands for a package without a
\* version.
PackageVersions == {[minor |-> 0, patch |-> 0]} \cup [minor : 1..MaxMinor, patch : 0..1]

NoPublisher ==
    [ handler |-> FALSE,              \* self._handler is set
      required |-> TRUE,              \* self._data["required"]
      methods |-> <<>>,               \* self._data["authentication"]: does the method hand out a handler
      latest_folder |-> TRUE,         \* self._data["latest_folder"] is a name
      version_folder |-> TRUE,        \* self._data["version_folder"] is a name
      skip_existing_version |-> FALSE,
      version |-> [minor |-> 0, patch |-> 0],
      versioned |-> [m \in 1..MaxMinor |-> "absent"],   \* the version folders, by minor
      latest |-> "absent",            \* the latest folder
      ready |-> TRUE,                 \* what repository.is_ready_to_commit() answers
      was_copied |-> FALSE,
      cloned |-> [versioned |-> [m \in 1..MaxMinor |-> "absent"], latest |-> "absent"],
                                      \* the folders as the clone had them
      operations |-> <<>> ]           \* the repository methods called, in order

\* The lists of authentication methods a publisher can be configured with.
MethodLists == UNION {[1..k -> BOOLEAN] : k \in 0..MaxMethods}

\* GitPublisher.is_publishing_enabled, lines 510-512.
is_publishing_enabled == publisher.handler

\* The loop of authenticate, lines 532-541: the first method that hands out a
\* handler ends it.
any_method_succeeds(methods) == \E i \in 1..Len(methods) : methods[i]

\* GitPublisher.authenticate, lines 518-551: the error it ends with.
authenticate(methods, required) ==
    IF methods = <<>> THEN "RuntimeError"
    ELSE IF any_method_succeeds(methods) THEN "none"
    ELSE IF ~required THEN "none"
    ELSE "RuntimeError"

CallAuthenticate ==
    /\ pc = "idle"
    /\ \E methods \in MethodLists, required \in BOOLEAN, handler \in BOOLEAN :
        /\ publisher' = [NoPublisher EXCEPT !.methods = methods, !.required = required,
                             !.handler = IF any_method_succeeds(methods) THEN TRUE ELSE handler]
        /\ error' = authenticate(methods, required)
    /\ entry' = "authenticate"
    /\ pc' = "done"
    /\ UNCHANGED <<requests, contexts, returncode, lo, hi, cache, calls, last_good, first_bad,
                   summary, breakdown, named, given, running, sphinx>>

\* What a documentation folder of the cloned repository holds: nothing, the
\* documentation of an earlier publish, or the documentation being published.
\* A clone holds no documentation of the publish that is about to be made.
ClonedFolders == {"absent", "old"}

\* _get_resolved_publish_pattern, lines 259-285: the name of the version
\* folder of a package version, 1.2.3 giving 1.2; folders are named by minor.
_get_resolved_publish_pattern(version) == version.minor

\* _has_existing_folder, lines 79-136, on the names of the version folders.
_has_existing_folder(version, versioned) == versioned[_get_resolved_publish_pattern(version)] # "absent"

\* _get_latest_version_folder, lines 177-203: the highest version folder,
\* 0 for None.
_get_latest_version_folder(versioned) ==
    IF \A m \in 1..MaxMinor : versioned[m] = "absent" THEN 0
    ELSE CHOOSE m \in 1..MaxMinor :
            versioned[m] # "absent" /\ \A k \in (m + 1)..MaxMinor : versioned[k] = "absent"

\* _copy_into_versioned_if_needed, lines 441-475.
_copy_into_versioned_if_needed(p) ==
    IF p.version.minor = 0 THEN [copied |-> FALSE, versioned |-> p.versioned]
    ELSE IF p.skip_existing_version /\ _has_existing_folder(p.version, p.versioned)
    THEN [copied |-> FALSE, versioned |-> p.versioned]
    ELSE [copied |-> TRUE,
          versioned |-> [p.versioned EXCEPT ![_get_resolved_publish_pattern(p.version)] = "new"]]

\* The latest folder overwritten whatever the highest version folder is.
copy_into_latest_always(p, versioned) ==
    IF ~p.version_folder
    THEN [raised |-> "OSError", copied |-> FALSE, versioned |-> versioned, latest |-> p.latest]
    ELSE IF p.latest_folder
    THEN [raised |-> "none", copied |-> TRUE, versioned |-> versioned, latest |-> "new"]
    ELSE [raised |-> "none", copied |-> TRUE,
          versioned |-> [m \in 1..MaxMinor |-> "absent"], latest |-> p.latest]

\* _copy_into_latest_if_needed, lines 407-439, with the version folders as
\* _copy_into_versioned_if_needed left them.  Without a version folder name
\* the folder to list is "" and os.listdir raises.  A version folder 1.m is
\* at most the version 1.n.p when m <= n.  Without a latest folder name the
\* latest folder is the root itself, which _copy_into clears.
_copy_into_latest_if_needed(p, versioned) ==
    IF ~p.version_folder
    THEN [raised |-> "OSError", copied |-> FALSE, versioned |-> versioned, latest |-> p.latest]
    ELSE IF p.version.minor = 0 \/ _get_latest_version_folder(versioned) <= p.version.minor
    THEN IF p.latest_folder
         THEN [raised |-> "none", copied |-> TRUE, versioned |-> versioned, latest |-> "new"]
         ELSE [raised |-> "none", copied |-> TRUE,
               versioned |-> [m \in 1..MaxMinor |-> "absent"], latest |-> p.latest]
    ELSE [raised |-> "none", copied |-> FALSE, versioned |-> versioned, latest |-> p.latest]

\* _copy_documentation_if_needed, lines 347-405.
_copy_documentation_if_needed(p) ==
    LET version == IF p.version_folder THEN _copy_into_versioned_if_needed(p)
                   ELSE [copied |-> FALSE, versioned |-> p.versioned]
        latest == _copy_into_latest_if_needed(p, version.versioned)
    IN  IF p.version_folder /\ ~version.copied
        THEN [raised |-> "none", copied |-> FALSE, versioned |-> p.versioned, latest |-> p.latest]
        ELSE [raised |-> latest.raised, copied |-> version.copied \/ latest.copied,
              versioned |-> latest.versioned, latest |-> latest.latest]

\* quick_publish is called on a publisher, with or without a handler, for a
\* package and a remote repository in any state.
CallQuickPublish ==
    /\ pc = "idle"
    /\ \E handler \in BOOLEAN, latest_folder \in BOOLEAN, version_folder \in BOOLEAN,
          skip_existing_version \in BOOLEAN, ready \in BOOLEAN, version \in PackageVersions,
          versioned \in [1..MaxMinor -> ClonedFolders], latest \in ClonedFolders :
        /\ version_folder \/ \A m \in 1..MaxMinor : versioned[m] = "absent"
        /\ latest_folder \/ latest = "absent"
        /\ publisher' = [NoPublisher EXCEPT
                            !.handler = handler, !.latest_folder = latest_folder,
                            !.version_folder = version_folder,
                            !.skip_existing_version = skip_existing_version,
                            !.ready = ready, !.version = version,
                            !.versioned = versioned, !.latest = latest,
                            !.cloned = [versioned |-> versioned, latest |-> latest]]
    /\ entry' = "quick_publish"
    /\ pc' = "clone"
    /\ UNCHANGED <<requests, contexts, returncode, lo, hi, cache, calls, last_good, first_bad,
                   summary, breakdown, named, error, given, running, sphinx>>

\* quick_publish, lines 580-598: the handler, the clone, the package version.
QuickPublishClone ==
    /\ pc = "clone"
    /\ IF ~publisher.handler
       THEN /\ error' = "RuntimeError"
            /\ pc' = "done"
            /\ publisher' = publisher
       ELSE /\ publisher' = [publisher EXCEPT !.operations = @ \o <<"get_repository", "get_root">>]
            /\ IF publisher.version.minor = 0 /\ ~publisher.latest_folder
               THEN error' = "CannotMakeDocumentation" /\ pc' = "done"
               ELSE error' = error /\ pc' = "copy"
    /\ UNCHANGED <<entry, requests, contexts, returncode, lo, hi, cache, calls, last_good,
                   first_bad, summary, breakdown, named, given, running, sphinx>>

\* quick_publish, lines 600-605.
QuickPublishCopy ==
    /\ pc = "copy"
    /\ LET result == _copy_documentation_if_needed(publisher)
       IN /\ publisher' = [publisher EXCEPT !.versioned = result.versioned,
                                             !.latest = result.latest,
                                             !.was_copied = result.copied]
          /\ error' = result.raised
          /\ pc' = IF result.raised = "none" /\ result.copied THEN "add" ELSE "done"
    /\ UNCHANGED <<entry, requests, contexts, returncode, lo, hi, cache, calls, last_good,
                   first_bad, summary, breakdown, named, given, running, sphinx>>

\* The repository is committed without asking whether it is ready.
QuickPublishAddAllUnchecked ==
    /\ pc = "add"
    /\ publisher' = [publisher EXCEPT !.operations = Append(@, "add_all")]
    /\ pc' = "commit"
    /\ UNCHANGED <<entry, requests, contexts, returncode, lo, hi, cache, calls, last_good,
                   first_bad, summary, breakdown, named, error, given, running, sphinx>>

\* quick_publish, lines 607-613.
QuickPublishAddAll ==
    /\ pc = "add"
    /\ publisher' = [publisher EXCEPT !.operations = Append(@, "add_all")]
    /\ IF ~publisher.ready
       THEN error' = "MissingDocumentation" /\ pc' = "done"
       ELSE error' = error /\ pc' = "commit"
    /\ UNCHANGED <<entry, requests, contexts, returncode, lo, hi, cache, calls, last_good,
                   first_bad, summary, breakdown, named, given, running, sphinx>>

\* quick_publish, lines 615-616.
QuickPublishCommit ==
    /\ pc = "commit"
    /\ publisher' = [publisher EXCEPT !.operations = Append(@, "commit")]
    /\ pc' = "push"
    /\ UNCHANGED <<entry, requests, contexts, returncode, lo, hi, cache, calls, last_good,
                   first_bad, summary, breakdown, named, error, given, running, sphinx>>

\* quick_publish, line 617.
QuickPublishPush ==
    /\ pc = "push"
    /\ publisher' = [publisher EXCEPT !.operations = Append(@, "push")]
    /\ pc' = "done"
    /\ UNCHANGED <<entry, requests, contexts, returncode, lo, hi, cache, calls, last_good,
                   first_bad, summary, breakdown, named, error, given, running, sphinx>>

\* ------------------------------------------------ rez_sphinx, bootstrap.py
\* The conf.py variables bootstrap sets by itself, lines 37-47.
BuiltInKeys ==
    {"author", "copyright", "extensions", "intersphinx_mapping", "latex_documents",
     "man_pages", "master_doc", "project", "project_copyright", "release", "version"}

\* The variables a conf.py or the configuration overrides can name.
ConfKeys == BuiltInKeys \cup {"html_theme"}

\* The value of a variable: not set, set by the user's conf.py, set by
\* bootstrap from the package, the user's value extended by bootstrap, or
\* set by a configuration override.
AbsentData == [k \in ConfKeys |-> "absent"]

NoBootstrap == [incoming |-> AbsentData, skip |-> {}, overrides |-> {}, data |-> AbsentData]

\* The value a built-in assignment gives: extensions and intersphinx_mapping
\* extend what the incoming data holds, lines 521-527.
built_in_value(data, key) ==
    IF key \in {"extensions", "intersphinx_mapping"} /\ data[key] # "absent"
    THEN "merged"
    ELSE "rez"

\* The overrides written without looking at skip.
bootstrap_overrides_unfiltered(data, skip, overrides) ==
    LET assigned == [k \in ConfKeys |->
                        IF k \in BuiltInKeys /\ k \notin skip
                        THEN built_in_value(data, k) ELSE data[k]]
    IN  [k \in ConfKeys |-> IF k \in overrides THEN "override" ELSE assigned[k]]

\* bootstrap, lines 481-593: the data it returns.
bootstrap(data, skip, overrides) ==
    LET assigned == [k \in ConfKeys |->
                        IF k \in BuiltInKeys /\ k \notin skip
                        THEN built_in_value(data, k) ELSE data[k]]
        kept == {k \in overrides : k \notin skip}
    IN  [k \in ConfKeys |-> IF k \in kept THEN "override" ELSE assigned[k]]

\* The variables the incoming conf.py has set, the skipped variables and the
\* variables the configuration overrides name.
IncomingKeys == {{}, {"extensions", "project", "html_theme"}, ConfKeys}

SkipSets == {keys \in SUBSET ConfKeys : Cardinality(keys) <= MaxSkip}

OverrideKeys == SUBSET {"project", "version", "html_theme"}

CallBootstrap ==
    /\ pc = "idle"
    /\ \E user \in IncomingKeys, skip \in SkipSets, overrides \in OverrideKeys :
        LET incoming == [k \in ConfKeys |-> IF k \in user THEN "user" ELSE "absent"]
        IN  sphinx' = [incoming |-> incoming, skip |-> skip, overrides |-> overrides,
                       data |-> bootstrap(incoming, skip, overrides)]
    /\ entry' = "bootstrap"
    /\ pc' = "done"
    /\ UNCHANGED <<requests, contexts, returncode, lo, hi, cache, calls, last_good, first_bad,
                   summary, breakdown, named, error, given, running, publisher>>

Init ==
    /\ pc = "idle"
    /\ entry = "none"
    /\ requests = <<>>
    /\ contexts = <<>>
    /\ returncode = <<>>
    /\ lo = -1
    /\ hi = -1
    /\ cache = <<>>
    /\ calls = <<>>
    /\ last_good = -1
    /\ first_bad = -1
    /\ summary = NoSummary
    /\ breakdown = EmptyDiff
    /\ named = {}
    /\ error = "none"
    /\ given = NothingGiven
    /\ running = {}
    /\ publisher = NoPublisher
    /\ sphinx = NoBootstrap

\* to_contexts(requests, root) from start to end.
CallToContexts ==
    /\ pc = "idle"
    /\ \E reqs \in RequestLists(MaxRequests) :
        /\ requests' = reqs
        /\ contexts' = to_contexts(reqs).contexts
        /\ named' = to_contexts(reqs).named
        /\ error' = to_contexts(reqs).error
    /\ entry' = "to_contexts"
    /\ pc' = "done"
    /\ UNCHANGED <<returncode, lo, hi, cache, calls, last_good, first_bad, summary, breakdown, given, running, publisher, sphinx>>

\* bisect(has_issue, contexts) called with any list of contexts and the
\* predicate of to_script_runner.
CallBisect ==
    /\ pc = "idle"
    /\ \E n \in 0..MaxContexts :
        /\ contexts' = ContextChain(1, n)
        /\ \E rcs \in [0..(n - 1) -> 0..MaxReturnCode] : returncode' = rcs
    /\ entry' = "bisect"
    /\ pc' = "bisect"
    /\ UNCHANGED <<requests, lo, hi, cache, calls, last_good, first_bad, summary, breakdown, named, error, given, running, publisher, sphinx>>

\* Every resolve of the packages, each at one of its versions or absent.
AllContexts == [Packages -> 0..MaxVersion]

\* bisect called with any two contexts, the known good and the known bad one.
CallBisectPair ==
    /\ pc = "idle"
    /\ \E before \in AllContexts, after \in AllContexts : contexts' = <<before, after>>
    /\ returncode' = [i \in 0..1 |-> i]
    /\ entry' = "bisect"
    /\ pc' = "bisect"
    /\ UNCHANGED <<requests, lo, hi, cache, calls, last_good, first_bad, summary, breakdown, named, error, given, running, publisher, sphinx>>

\* bisect called with the predicate of a path that is no executable file:
\* the command is run through the shell, which exits with its own non-zero
\* status in every context.
CallBisectNoExecutable ==
    /\ pc = "idle"
    /\ \E n \in 3..MaxContexts :
        /\ contexts' = ContextChain(1, n)
        /\ \E status \in 1..MaxReturnCode : returncode' = [i \in 0..(n - 1) |-> status]
    /\ given' = [NothingGiven EXCEPT !.launched = FALSE]
    /\ entry' = "bisect"
    /\ pc' = "bisect"
    /\ UNCHANGED <<requests, lo, hi, cache, calls, last_good, first_bad, summary, breakdown, named, error, running, publisher, sphinx>>

\* bisect called with contexts of which one, not the first and not the last,
\* is a failed resolve.
CallBisectUnresolved ==
    /\ pc = "idle"
    /\ \E n \in 3..MaxContexts :
        /\ contexts' = ContextChain(1, n)
        /\ \E rcs \in [0..(n - 1) -> 0..1] : returncode' = rcs
        /\ \E i \in 1..(n - 2) : given' = [NothingGiven EXCEPT !.failed = {i}]
    /\ entry' = "bisect"
    /\ pc' = "bisect"
    /\ UNCHANGED <<requests, lo, hi, cache, calls, last_good, first_bad, summary, breakdown, named, error, running, publisher, sphinx>>

\* The command line's run, given the before and the after context of foo:
\* the contexts of the installed versions from before to after are bisected
\* with the predicate of to_script_runner.
CallRun ==
    /\ pc = "idle"
    /\ \E after \in 2..MaxContexts :
        /\ contexts' = ContextChain(1, after)
        /\ \E rcs \in [0..(after - 1) -> 0..MaxReturnCode] : returncode' = rcs
    /\ entry' = "run"
    /\ pc' = "bisect"
    /\ UNCHANGED <<requests, lo, hi, cache, calls, last_good, first_bad, summary, breakdown, named, error, given, running, publisher, sphinx>>

\* The request at index i of a partial-mode run: changing_dependencies rises
\* with the index, foo and bar are requested from their own index on.
partial_context(i, foo_at, bar_at) ==
    [p \in Packages |->
        CASE p = "changing_dependencies" -> i + 1
          [] p = "foo" -> IF i >= foo_at THEN 1 ELSE 0
          [] p = "bar" -> IF i >= bar_at THEN 1 ELSE 0
          [] OTHER -> 0]

\* The failure conditions and --matches filters of the partial-mode runs.
PresenceConditions == {"foo", "bar", "foo_and_bar"}

MatchFilters == {{}, {"foo"}, {"bar"}, {"changing_dependencies"}}

\* The command line's run --partial over a list of requests, with a failure
\* condition in place of the script.
CallPartial ==
    /\ pc = "idle"
    /\ \E n \in 2..MaxContexts : \E foo_at \in 1..n, bar_at \in 1..n :
        contexts' = [i \in 1..n |-> partial_context(i - 1, foo_at, bar_at)]
    /\ \E condition \in PresenceConditions, matches \in MatchFilters :
        given' = [NothingGiven EXCEPT !.condition = condition, !.matches = matches]
    /\ returncode' = <<>>
    /\ entry' = "partial"
    /\ pc' = "bisect"
    /\ UNCHANGED <<requests, lo, hi, cache, calls, last_good, first_bad, summary, breakdown, named, error, running, publisher, sphinx>>

\* The two requests of a partial-mode run whose second request lowers the
\* version range of foo, drops changing_dependencies and adds bar; the
\* failure condition is "foo is below the threshold".
older_contexts(good_version, bad_version) ==
    << [p \in Packages |->
            CASE p = "foo" -> good_version
              [] p = "changing_dependencies" -> 1
              [] OTHER -> 0],
       [p \in Packages |->
            CASE p = "foo" -> bad_version
              [] p = "bar" -> 1
              [] OTHER -> 0] >>

CallPartialOlder ==
    /\ pc = "idle"
    /\ \E good_version \in 2..MaxVersion : \E bad_version \in 1..(good_version - 1) :
        contexts' = older_contexts(good_version, bad_version)
    /\ \E threshold \in 1..(MaxVersion + 1), matches \in MatchFilters :
        given' = [NothingGiven EXCEPT !.condition = "foo_below", !.threshold = threshold,
                                      !.matches = matches]
    /\ returncode' = <<>>
    /\ entry' = "partial"
    /\ pc' = "bisect"
    /\ UNCHANGED <<requests, lo, hi, cache, calls, last_good, first_bad, summary, breakdown, named, error, running, publisher, sphinx>>

\* bisect, lines 58-68: the dispatch on the number of contexts.
BisectDispatch ==
    /\ pc = "bisect"
    /\ LET branch == bisect_branch(count) IN
        CASE branch = "reduce" ->
                /\ pc' = "search"
                /\ lo' = 0
                /\ hi' = count - 1
                /\ UNCHANGED <<last_good, first_bad, error, running, publisher, sphinx>>
          [] branch = "two" ->
                /\ pc' = "diff"
                /\ last_good' = 0
                /\ first_bad' = 1
                /\ UNCHANGED <<lo, hi, error, running, publisher, sphinx>>
          [] OTHER ->
                /\ pc' = "done"
                /\ error' = "NotImplementedError"
                /\ UNCHANGED <<lo, hi, last_good, first_bad, running, publisher, sphinx>>
    /\ UNCHANGED <<entry, requests, contexts, returncode, cache, calls, summary, breakdown, named, given, running, publisher, sphinx>>

\* The index bisect_right checks next.
bisect_mid(low, high) == (low + high) \div 2

\* bisecter.bisect_right, one iteration: index 0 is taken as good and the
\* last index as bad; the middle of the bracket is checked, and its verdict
\* cached by index.
BisectRightStep ==
    /\ pc = "search"
    /\ hi - lo > 1
    /\ LET mid == bisect_mid(lo, hi)
           known == mid \in DOMAIN cache
           verdict == IF known THEN cache[mid] ELSE has_issue(mid)
       IN /\ known \/ entry = "partial"
          /\ calls' = IF known THEN calls ELSE Append(calls, <<mid, verdict>>)
          /\ cache' = IF known THEN cache
                      ELSE [i \in DOMAIN cache \cup {mid} |-> IF i = mid THEN verdict ELSE cache[i]]
          /\ IF verdict THEN hi' = mid /\ lo' = lo ELSE lo' = mid /\ hi' = hi
    /\ UNCHANGED <<pc, entry, requests, contexts, returncode, last_good, first_bad,
                   summary, breakdown, named, error, given, running, publisher, sphinx>>

\* has_issue is _run_in_context: the search asks for the verdict of the
\* middle context and context.execute_command starts the check process, or
\* raises; rez_helper.py lines 115-119.
ExecuteCommand ==
    /\ pc = "search"
    /\ hi - lo > 1
    /\ entry # "partial"
    /\ LET mid == bisect_mid(lo, hi)
       IN /\ mid \notin DOMAIN cache
          /\ IF execute_command_raises(mid)
             THEN /\ error' = "ResolvedContextError"
                  /\ pc' = "done"
                  /\ running' = running
             ELSE /\ running' = running \cup {mid}
                  /\ pc' = "check"
                  /\ error' = error
    /\ UNCHANGED <<entry, requests, contexts, returncode, lo, hi, cache, calls,
                   last_good, first_bad, summary, breakdown, named, given, publisher, sphinx>>

\* The process is not waited for: its exit status is not there yet.
CommunicateNotAwaited ==
    /\ pc = "check"
    /\ LET mid == bisect_mid(lo, hi)
       IN /\ calls' = Append(calls, <<mid, FALSE>>)
          /\ cache' = [i \in DOMAIN cache \cup {mid} |-> IF i = mid THEN FALSE ELSE cache[i]]
          /\ lo' = mid /\ hi' = hi
    /\ pc' = "search"
    /\ UNCHANGED <<entry, requests, contexts, returncode, last_good, first_bad,
                   summary, breakdown, named, error, given, running, publisher, sphinx>>

\* process.communicate() returns when the process has exited and the exit
\* status gives the verdict, which bisect_right uses; rez_helper.py lines
\* 121-123.
Communicate ==
    /\ pc = "check"
    /\ LET mid == bisect_mid(lo, hi)
           verdict == has_issue(mid)
       IN /\ running' = running \ {mid}
          /\ calls' = Append(calls, <<mid, verdict>>)
          /\ cache' = [i \in DOMAIN cache \cup {mid} |-> IF i = mid THEN verdict ELSE cache[i]]
          /\ IF verdict THEN hi' = mid /\ lo' = lo ELSE lo' = mid /\ hi' = hi
    /\ pc' = "search"
    /\ UNCHANGED <<entry, requests, contexts, returncode, last_good, first_bad,
                   summary, breakdown, named, error, given, publisher, sphinx>>

\* Mutant: _reduce_to_two_contexts checks the upper bound once more before
\* it returns.
ReduceReturnRechecked ==
    /\ pc = "search"
    /\ hi - lo <= 1
    /\ calls' = Append(calls, <<hi, has_issue(hi)>>)
    /\ last_good' = hi - 1
    /\ first_bad' = hi
    /\ pc' = "diff"
    /\ UNCHANGED <<entry, requests, contexts, returncode, lo, hi, cache,
                   summary, breakdown, named, error, given, running, publisher, sphinx>>

\* Mutant: _reduce_to_two_contexts checks both contexts it is about to return.
ReduceReturnBothChecked ==
    /\ pc = "search"
    /\ hi - lo <= 1
    /\ calls' = calls \o << <<hi - 1, has_issue(hi - 1)>>, <<hi, has_issue(hi)>> >>
    /\ last_good' = hi - 1
    /\ first_bad' = hi
    /\ pc' = "diff"
    /\ UNCHANGED <<entry, requests, contexts, returncode, lo, hi, cache,
                   summary, breakdown, named, error, given, running, publisher, sphinx>>

\* bisect_right returns its upper bound; _reduce_to_two_contexts, lines 37-39.
ReduceReturn ==
    /\ pc = "search"
    /\ hi - lo <= 1
    /\ last_good' = _reduce_to_two_contexts(hi)[1]
    /\ first_bad' = _reduce_to_two_contexts(hi)[2]
    /\ pc' = "diff"
    /\ UNCHANGED <<entry, requests, contexts, returncode, lo, hi, cache, calls,
                   summary, breakdown, named, error, given, running, publisher, sphinx>>

\* bisect, lines 70-72.
MakeSummary ==
    /\ pc = "diff"
    /\ IF InRange(last_good, count) /\ InRange(first_bad, count)
       THEN /\ summary' = [last_good |-> last_good, first_bad |-> first_bad,
                           diff |-> bisect_diff(contexts, last_good, first_bad),
                           returned |-> TRUE]
            /\ error' = error
            /\ pc' = IF entry = "partial" THEN "narrow" ELSE "done"
       ELSE /\ error' = "IndexError"
            /\ summary' = summary
            /\ pc' = "done"
    /\ UNCHANGED <<entry, requests, contexts, returncode, lo, hi, cache, calls,
                   last_good, first_bad, breakdown, named, given, running, publisher, sphinx>>

\* The context of an intermediate request: the first bad request with
\* package p asked for as the last good request asks for it.
intermediate_context(good, bad, p) == [q \in Packages |-> IF q = p THEN good[q] ELSE bad[q]]

\* Every changed package blamed, whether the failure depends on it or not.
at_fault_everything(good, bad) == Packages

\* Partial mode: a changed package is at fault when the intermediate request
\* that takes its change back no longer shows the issue.
at_fault(good, bad) == {p \in Packages : ~_is_failure_condition(intermediate_context(good, bad, p))}

narrow(diff, names) == [c \in CategoryNames |-> {e \in diff[c] : e[1] \in names}]

\* The --matches filter ignored.
matched_unfiltered(names) == names

\* The --matches filter: no filter keeps every name.
matched(names) == IF given.matches = {} THEN names ELSE names \cap given.matches

\* The version of p that lies k installed versions away from the last good
\* context, towards the first bad one.
version_at(good, bad, p, k) == IF bad[p] > good[p] THEN good[p] + k ELSE good[p] - k

\* The intermediate requests between the two versions of p are bisected as
\* the contexts are: the bracket low..high, the last good version taken as
\* good and the first bad one as bad.
RECURSIVE interpolate(_, _, _, _, _)
interpolate(low, high, good, bad, p) ==
    IF high - low <= 1 THEN high
    ELSE LET mid == bisect_mid(low, high)
             candidate == [bad EXCEPT ![p] = version_at(good, bad, p, mid)]
         IN  IF _is_failure_condition(candidate)
             THEN interpolate(low, mid, good, bad, p)
             ELSE interpolate(mid, high, good, bad, p)

\* The version the first bad request itself resolves to, no interpolation.
boundary_as_resolved(good, bad, p) == bad[p]

\* The first version of p, counted from the last good context, with the issue.
boundary_version(good, bad, p) ==
    LET distance == IF bad[p] > good[p] THEN bad[p] - good[p] ELSE good[p] - bad[p]
    IN  version_at(good, bad, p, interpolate(0, distance, good, bad, p))

\* The packages whose version moved are reported at their boundary version.
interpolated(diff, good, bad) ==
    [c \in CategoryNames |->
        IF c \in {"newer_packages", "older_packages"}
        THEN {<<e[1], boundary_version(good, bad, e[1])>> : e \in diff[c]}
        ELSE diff[c]]

\* The breakdown returned as it is, empty or not.
NarrowSilently ==
    /\ pc = "narrow"
    /\ LET good == At(contexts, summary.last_good)
           bad == At(contexts, summary.first_bad)
       IN breakdown' = interpolated(narrow(summary.diff, matched(at_fault(good, bad))), good, bad)
    /\ pc' = "done"
    /\ UNCHANGED <<entry, requests, contexts, returncode, lo, hi, cache, calls,
                   last_good, first_bad, summary, named, error, given, running, publisher, sphinx>>

\* Partial mode: the breakdown of the summary; a breakdown that names no
\* package is an error, not an empty answer.
Narrow ==
    /\ pc = "narrow"
    /\ LET good == At(contexts, summary.last_good)
           bad == At(contexts, summary.first_bad)
           kept == interpolated(narrow(summary.diff, matched(at_fault(good, bad))), good, bad)
       IN IF Categories(kept) = {}
          THEN error' = "AmbiguousMatch" /\ breakdown' = breakdown
          ELSE error' = error /\ breakdown' = kept
    /\ pc' = "done"
    /\ UNCHANGED <<entry, requests, contexts, returncode, lo, hi, cache, calls,
                   last_good, first_bad, summary, named, given, running, publisher, sphinx>>

Next ==
    \/ CallToContexts
    \/ CallBisect
    \/ CallRun
    \/ CallPartial
    \/ CallPartialOlder
    \/ CallBisectUnresolved
    \/ CallBisectPair
    \/ CallBisectNoExecutable
    \/ CallAuthenticate
    \/ CallBootstrap
    \/ CallQuickPublish
    \/ QuickPublishClone
    \/ QuickPublishCopy
    \/ QuickPublishAddAll
    \/ QuickPublishCommit
    \/ QuickPublishPush
    \/ BisectDispatch
    \/ BisectRightStep
    \/ ExecuteCommand
    \/ Communicate
    \/ ReduceReturn
    \/ MakeSummary
    \/ Narrow

Spec == Init /\ [][Next]_vars

\* ================================================================ claims
Bisecting == entry \in {"bisect", "run", "partial"}

Returned == pc \in {"narrow", "done"}

Indices == 0..(count - 1)

\* has_issue has a verdict on every context, and the verdicts are False up
\* to one flip and True from it on, False at index 0 and True at the last
\* index.
Monotonic ==
    /\ count >= 2
    /\ given.failed = {}
    /\ \E i \in 1..(count - 1) : \A j \in Indices : has_issue(j) <=> j >= i

\* The smallest index whose verdict is True.
FirstTrue == CHOOSE i \in Indices : has_issue(i) /\ \A j \in 0..(i - 1) : ~has_issue(j)

RECURSIVE CeilLog2From(_, _, _)
CeilLog2From(n, k, power) == IF power >= n THEN k ELSE CeilLog2From(n, k + 1, 2 * power)

CeilLog2(n) == CeilLog2From(n, 0, 1)

\* C1: over 3 or more contexts with monotonic verdicts, bisect returns
\* last_good = i - 1 and first_bad = i for the smallest index i whose verdict
\* is True.
C1_BisectFindsFlip ==
    (Bisecting /\ Returned /\ count >= 3 /\ Monotonic) =>
        /\ summary.returned
        /\ summary.last_good = FirstTrue - 1
        /\ summary.first_bad = FirstTrue

C1_Witness ==
    /\ entry = "bisect" /\ pc = "done" /\ count = 6 /\ Monotonic
    /\ FirstTrue = 2 /\ summary.returned /\ summary.first_bad = 2

\* C2: with exactly 2 contexts bisect returns last_good = 0 and
\* first_bad = 1 and never invokes has_issue, whatever its verdicts would be.
C2_TwoContextsUnchecked ==
    (Bisecting /\ count = 2) =>
        /\ calls = <<>>
        /\ Returned => (summary.returned /\ summary.last_good = 0 /\ summary.first_bad = 1)

C2_Witness ==
    /\ entry = "bisect" /\ pc = "done" /\ count = 2
    /\ has_issue(0) /\ ~has_issue(1)
    /\ summary.returned /\ summary.first_bad = 1

\* C3: the predicate of to_script_runner returns True if and only if the
\* process exited with a non-zero status.
C3_TrueIffNonZeroExit ==
    (entry \in {"bisect", "run"}) =>
        \A k \in 1..Len(calls) : calls[k][2] <=> (returncode[calls[k][1]] # 0)

\* The items of a list that name a snapshot file that does not exist.
MissingFiles(reqs) == {reqs[i] : i \in {j \in 1..Len(reqs) : _is_relative_context(reqs[j]) /\ ~isfile(normalize(reqs[j]))}}

\* The items of a list that exist but do not resolve.
Unresolvable(reqs) == {reqs[i] : i \in {j \in 1..Len(reqs) : reqs[j] \notin MissingFiles(reqs) /\ ~success(normalize(reqs[j]))}}

Offending(reqs) == MissingFiles(reqs) \cup Unresolvable(reqs)

Normalized(items) == {normalize(r) : r \in items}

\* C4: when any item is a missing snapshot file or fails to resolve,
\* to_contexts raises BadRequest and the error lists every offending item,
\* of both kinds, wherever it stands in the list.
C4_ListsEveryOffender ==
    (entry = "to_contexts" /\ pc = "done" /\ Offending(requests) # {}) =>
        /\ error = "BadRequest"
        /\ named = Normalized(Offending(requests))

\* C5: given valid requests mixed with paths to nonexistent snapshot files,
\* in any order, to_contexts raises a BadRequest that names only the
\* nonexistent files and never a valid request.
C5_NamesOnlyMissingFiles ==
    ( /\ entry = "to_contexts" /\ pc = "done"
      /\ Unresolvable(requests) = {}
      /\ MissingFiles(requests) # {}
      /\ \E i \in 1..Len(requests) : requests[i] \notin MissingFiles(requests) ) =>
        /\ error = "BadRequest"
        /\ named # {}
        /\ named \subseteq Normalized(MissingFiles(requests))

\* C6: over n >= 3 contexts with monotonic verdicts, has_issue is invoked
\* at most ceil(log2(n)) times.
C6_AtMostLogCalls ==
    (Bisecting /\ count >= 3 /\ Monotonic) => Len(calls) <= CeilLog2(count)

C6_Witness ==
    /\ Bisecting /\ pc = "done" /\ count = 6 /\ Monotonic
    /\ Len(calls) = CeilLog2(6)

\* C7: within one bisect run has_issue is invoked at most once for any
\* context index.
C7_NoIndexCheckedTwice ==
    Bisecting => \A a, b \in 1..Len(calls) : a # b => calls[a][1] # calls[b][1]

C7_Witness == Bisecting /\ pc = "done" /\ Len(calls) >= 3 /\ summary.returned

\* C8: bisect called with 0 or 1 contexts ends in NotImplementedError: it
\* returns no summary, computes no diff and never invokes has_issue.
C8_TooFewContextsRaise ==
    (entry = "bisect" /\ count < 2) =>
        /\ calls = <<>>
        /\ ~summary.returned
        /\ pc \notin {"search", "diff", "narrow"}
        /\ pc = "done" => error = "NotImplementedError"

C8_Witness == entry = "bisect" /\ count = 1 /\ pc = "done" /\ error = "NotImplementedError"

\* The check of a run fails (non-zero exit) for every version from index k on
\* and passes below it.
FailsFrom(k) == \A i \in Indices : (returncode[i] # 0) <=> i >= k

\* C9: when run is given the before and the after context of one package
\* with a chain of versions and the check fails from version v on, the result
\* has the single category newer_packages, holding that package at v.
C9_RunReportsFirstFailingVersion ==
    \A k \in 1..(count - 1) :
        (entry = "run" /\ pc = "done" /\ FailsFrom(k)) =>
            /\ summary.returned
            /\ Categories(summary.diff) = {"newer_packages"}
            /\ summary.diff.newer_packages = {<<"foo", At(contexts, k)["foo"]>>}

\* The index at which foo first appears in the requests, count when never.
FooAt == IF \E i \in Indices : Resolved(At(contexts, i), "foo")
         THEN CHOOSE i \in Indices : Resolved(At(contexts, i), "foo") /\ \A j \in 0..(i - 1) : ~Resolved(At(contexts, j), "foo")
         ELSE count

\* C10: in partial mode, with the failure being "foo is resolved" and foo
\* first requested at index k, the result has last_good = k - 1,
\* first_bad = k and the single category added_packages naming exactly foo.
C10_PartialAddedPackage ==
    ( /\ entry = "partial" /\ pc = "done"
      /\ given.condition = "foo" /\ given.matches = {}
      /\ FooAt \in 1..(count - 1) ) =>
        /\ error = "none"
        /\ summary.last_good = FooAt - 1
        /\ summary.first_bad = FooAt
        /\ Categories(breakdown) = {"added_packages"}
        /\ {e[1] : e \in breakdown.added_packages} = {"foo"}

C10_Witness ==
    /\ entry = "partial" /\ pc = "done" /\ count = 4 /\ FooAt = 2
    /\ given.condition = "foo" /\ given.matches = {}
    /\ summary.first_bad = 2
    /\ {e[1] : e \in breakdown.added_packages} = {"foo"}

\* The index at which bar first appears in the requests, count when never.
BarAt == IF \E i \in Indices : Resolved(At(contexts, i), "bar")
         THEN CHOOSE i \in Indices : Resolved(At(contexts, i), "bar") /\ \A j \in 0..(i - 1) : ~Resolved(At(contexts, j), "bar")
         ELSE count

\* The package names of one category of the breakdown.
Names(category) == {e[1] : e \in category}

\* C11: in partial mode, with foo and bar first requested at the same index
\* and the failure depending on foo only, the breakdown has the single
\* category added_packages and it names exactly foo: bar, added at the same
\* index, is left out.
C11_CoAddedPackageExcluded ==
    ( /\ entry = "partial" /\ pc = "done"
      /\ given.condition = "foo" /\ given.matches = {}
      /\ FooAt \in 1..(count - 1) /\ BarAt = FooAt ) =>
        /\ error = "none"
        /\ Categories(breakdown) = {"added_packages"}
        /\ Names(breakdown.added_packages) = {"foo"}

C11_Witness ==
    /\ entry = "partial" /\ pc = "done" /\ count = 4
    /\ given.condition = "foo" /\ given.matches = {}
    /\ FooAt = 2 /\ BarAt = 2
    /\ summary.diff.added_packages = {<<"foo", 1>>, <<"bar", 1>>}
    /\ breakdown.added_packages = {<<"foo", 1>>}

C13_OlderBoundaryVersion ==
    ( /\ entry = "partial" /\ pc = "done"
      /\ given.condition = "foo_below" /\ given.matches = {}
      /\ At(contexts, 1)["foo"] < given.threshold
      /\ given.threshold <= At(contexts, 0)["foo"] ) =>
        /\ error = "none"
        /\ summary.last_good = 0
        /\ summary.first_bad = 1
        /\ Categories(breakdown) = {"older_packages"}
        /\ breakdown.older_packages = {<<"foo", given.threshold - 1>>}

C13_Witness ==
    /\ entry = "partial" /\ pc = "done"
    /\ given.condition = "foo_below" /\ given.matches = {} /\ given.threshold = 3
    /\ At(contexts, 0)["foo"] = 4 /\ At(contexts, 1)["foo"] = 1
    /\ summary.diff.older_packages = {<<"foo", 1>>}
    /\ breakdown.older_packages = {<<"foo", 2>>}

\* The package names of all categories of a diff.
AllNames(diff) == UNION {Names(diff[c]) : c \in CategoryNames}

\* C14: in partial mode with a --matches filter, every package named in any
\* category of the breakdown matches the filter.
C14_OnlyMatchedPackages ==
    (entry = "partial" /\ pc = "done" /\ given.matches # {}) =>
        AllNames(breakdown) \subseteq given.matches

C14_Witness ==
    /\ entry = "partial" /\ pc = "done" /\ error = "none"
    /\ given.condition = "bar" /\ given.matches = {"bar"}
    /\ AllNames(summary.diff) = {"foo", "bar", "changing_dependencies"}
    /\ breakdown.added_packages = {<<"bar", 1>>}

RECURSIVE Probed(_, _)
Probed(low, high) ==
    IF high - low <= 1 THEN {}
    ELSE LET mid == (low + high) \div 2
         IN  {mid} \cup
             IF mid \in given.failed THEN {}
             ELSE IF returncode[mid] = 0 THEN Probed(low, mid) ELSE Probed(mid, high)

C17_InconsistentVerdictRaised ==
    ( /\ entry = "bisect" /\ pc = "done" /\ count >= 3 /\ given.failed = {}
      /\ \E i \in DOMAIN cache : \E j \in Indices :
            i < j /\ cache[i] /\ ~has_issue(j) ) =>
        /\ error = "InconsistentVerdict"
        /\ ~summary.returned

\* C18: when the check command fails on every context, the first included,
\* run ends with an error and reports no boundary and no diff.
C18_NeverSucceedsFailsGracefully ==
    ( /\ entry = "run" /\ pc = "done"
      /\ \A i \in Indices : returncode[i] # 0 ) =>
        /\ error # "none"
        /\ ~summary.returned

\* The categories of a diff that name the package p.
CategoriesOf(diff, p) == {c \in CategoryNames : p \in Names(diff[c])}

\* C20: the diff of a summary, from the last good context to the first bad
\* one, names every package in exactly the one category of its change: only
\* in the first bad context added_packages, only in the last good one
\* removed_packages, in both with a greater version newer_packages, in both
\* with a smaller version older_packages, with equal versions or in neither
\* context no category.
C20_EveryNameClassifiedOnce ==
    summary.returned =>
        LET before == At(contexts, summary.last_good)
            after == At(contexts, summary.first_bad)
        IN  \A p \in Packages :
              CategoriesOf(summary.diff, p) =
                IF ~Resolved(before, p) /\ Resolved(after, p) THEN {"added_packages"}
                ELSE IF Resolved(before, p) /\ ~Resolved(after, p) THEN {"removed_packages"}
                ELSE IF ~Resolved(before, p) \/ after[p] = before[p] THEN {}
                ELSE IF after[p] > before[p] THEN {"newer_packages"}
                ELSE {"older_packages"}

C20_Witness ==
    /\ entry = "bisect" /\ pc = "done" /\ summary.returned /\ count = 2
    /\ At(contexts, 0) = [foo |-> 2, bar |-> 0, changing_dependencies |-> 3]
    /\ At(contexts, 1) = [foo |-> 0, bar |-> 1, changing_dependencies |-> 1]
    /\ summary.diff = [added_packages |-> {<<"bar", 1>>}, removed_packages |-> {<<"foo", 2>>},
                       newer_packages |-> {}, older_packages |-> {<<"changing_dependencies", 1>>}]

\* C21: the diff of a context with itself is empty in all four categories:
\* a summary whose two boundary contexts are the same resolve has no
\* category at all.
C21_DiffWithItselfEmpty ==
    (summary.returned /\ At(contexts, summary.last_good) = At(contexts, summary.first_bad)) =>
        /\ summary.diff = EmptyDiff
        /\ Categories(summary.diff) = {}

C21_Witness ==
    /\ entry = "bisect" /\ pc = "done" /\ summary.returned /\ count = 2
    /\ At(contexts, 0) = [foo |-> 2, bar |-> 1, changing_dependencies |-> 0]
    /\ At(contexts, 1) = At(contexts, 0)
    /\ summary.diff = EmptyDiff

\* C22: whenever a request names a snapshot file that is not on disk, given
\* as an absolute path or as a path relative to root, to_contexts raises
\* BadRequest and no other error.
C22_MissingFileIsBadRequest ==
    (entry = "to_contexts" /\ pc = "done" /\ MissingFiles(requests) # {}) =>
        error = "BadRequest"

\* C23: when the check executable cannot be started, the predicate gives
\* the search no verdict, neither True nor False, and bisect ends with an
\* error and without a summary.
C23_InvocationFailureIsNoVerdict ==
    (entry = "bisect" /\ ~given.launched) =>
        /\ calls = <<>>
        /\ pc = "done" => (error # "none" /\ ~summary.returned)

\* C24: at most one check process runs at any time; while it runs the
\* search waits for the verdict of that index, and whenever the search
\* chooses an index no process is running.
C24_ChecksOneAfterAnother ==
    /\ Cardinality(running) <= 1
    /\ pc = "check" => (running = {bisect_mid(lo, hi)} /\ bisect_mid(lo, hi) \notin DOMAIN cache)
    /\ pc # "check" => running = {}

C24_Witness ==
    /\ entry = "bisect" /\ pc = "check" /\ count = 6
    /\ Len(calls) = 1 /\ calls[1][1] = 2
    /\ running = {3}

\* C25: a summary bisect returns always has first_bad = last_good + 1, and
\* its diff is the diff from contexts[last_good], as before, to
\* contexts[first_bad], as after.
C25_SummaryOfAdjacentBoundary ==
    (summary.returned /\ summary.last_good \in Indices /\ summary.first_bad \in Indices) =>
        /\ summary.first_bad = summary.last_good + 1
        /\ summary.diff = get_resolve_diff(At(contexts, summary.last_good),
                                           At(contexts, summary.first_bad))

C25_Witness ==
    /\ entry = "bisect" /\ pc = "done" /\ count = 6 /\ summary.returned
    /\ Len(calls) = 3
    /\ summary.last_good = 3 /\ summary.first_bad = 4
    /\ summary.diff.newer_packages = {<<"foo", 5>>}

C27_AuthenticateRaisesOrSetsHandler ==
    (entry = "authenticate" /\ pc = "done") =>
        /\ ~any_method_succeeds(publisher.methods) => error = "RuntimeError"
        /\ error = "none" => is_publishing_enabled

\* The calls of add_all, commit and push among the repository operations.
Called(operation) == \E i \in 1..Len(publisher.operations) : publisher.operations[i] = operation

CommitOperations == SelectSeq(publisher.operations, LAMBDA o : o \in {"add_all", "commit", "push"})

\* C28: in quick_publish, without a handler RuntimeError is raised before
\* any repository operation; add_all, commit and push are called in this
\* order, commit and push only when documentation was copied and the
\* repository is ready to commit; when nothing was copied none of the three
\* is called; when the repository is not ready MissingDocumentation is
\* raised and neither commit nor push is called.
C28_PublishOperationsInOrder ==
    entry = "quick_publish" =>
        /\ ~publisher.handler =>
              (publisher.operations = <<>> /\ (pc = "done" => error = "RuntimeError"))
        /\ CommitOperations \in {<<>>, <<"add_all">>, <<"add_all", "commit">>,
                                  <<"add_all", "commit", "push">>}
        /\ (Called("commit") \/ Called("push")) => (publisher.was_copied /\ publisher.ready)
        /\ (pc = "done" /\ ~publisher.was_copied) => CommitOperations = <<>>
        /\ (pc = "done" /\ Called("add_all") /\ ~publisher.ready) =>
              (error = "MissingDocumentation" /\ CommitOperations = <<"add_all">>)
        /\ (pc = "done" /\ error = "none" /\ publisher.was_copied) =>
              CommitOperations = <<"add_all", "commit", "push">>

C28_Witness ==
    /\ entry = "quick_publish" /\ pc = "done" /\ error = "none"
    /\ publisher.was_copied /\ publisher.ready
    /\ publisher.operations = <<"get_repository", "get_root", "add_all", "commit", "push">>

\* quick_publish went past the copy of the documentation.
Copied == entry = "quick_publish" /\ pc \in {"add", "commit", "push", "done"} /\ Called("get_root")
             /\ error # "CannotMakeDocumentation"

\* The package has a version and the publisher makes version folders.
Versioned == publisher.version_folder /\ publisher.version.minor # 0

C30_SkippedKeysKept ==
    (entry = "bootstrap" /\ pc = "done") =>
        \A key \in sphinx.skip : sphinx.data[key] = sphinx.incoming[key]

C30_Witness ==
    /\ entry = "bootstrap" /\ pc = "done"
    /\ sphinx.skip = {"project", "release"}
    /\ sphinx.overrides = {"project", "html_theme"}
    /\ sphinx.incoming["project"] = "user" /\ sphinx.incoming["release"] = "absent"
    /\ sphinx.data["project"] = "user" /\ sphinx.data["release"] = "absent"
    /\ sphinx.data["html_theme"] = "override" /\ sphinx.data["version"] = "rez"
    /\ sphinx.data["extensions"] = "merged"

====
